---- MODULE Spec2Model ----
(***************************************************************************)
(* Model of eyekit/tools.py: the correction orchestrator snap_to_lines,    *)
(* the bounds filter discard_out_of_bounds_fixations and the DTW metric    *)
(* fixation_sequence_distance.                                             *)
(*                                                                         *)
(* A fixation is a record [x, y, duration, discarded]; a fixation sequence *)
(* is a TLA+ sequence of fixations; a text block is a record               *)
(* [line_positions, chars, word_centers] of which n_rows is the number of  *)
(* line positions.  All coordinates lie on a lattice on which every        *)
(* Euclidean distance is a whole number, so that distance is exact.        *)
(***************************************************************************)
EXTENDS Integers, Sequences, FiniteSets

VARIABLES
  fixation_sequence,  \* the caller's FixationSequence object (mutable in place)
  text_blocks,        \* the caller's TextBlock objects, by identity
  pre,                \* fixation_sequence as it was when the last call began
  call,               \* the last completed call of snap_to_lines / the filter
  corrected,          \* the sequence returned by the last snap_to_lines call
  sequence1,          \* first argument of fixation_sequence_distance
  sequence2,          \* second argument of fixation_sequence_distance
  dtw                 \* the last completed call of fixation_sequence_distance

vars == <<fixation_sequence, text_blocks, pre, call, corrected,
          sequence1, sequence2, dtw>>

-----------------------------------------------------------------------------
(* Bounds of the model *)

MaxLen == 2
MaxDTWLen == 2

(* Program constant: the default threshold of the bounds filter *)
DefaultThreshold == 128

Xs == {0, 90}
Ys == {0, 120}
Thresholds == {50, DefaultThreshold, 150}

SupportedMethods ==
  {"chain", "cluster", "merge", "regress", "segment", "split", "warp"}
Methods == SupportedMethods \cup {"bogus"}

Min(a, b) == IF a <= b THEN a ELSE b
Min3(a, b, c) == Min(a, Min(b, c))

Point(px, py) == [x |-> px, y |-> py]

SeqsUpTo(S, n) == UNION {[1..k -> S] : k \in 0..n}
NonEmptySeqsUpTo(S, n) == UNION {[1..k -> S] : k \in 1..n}

-----------------------------------------------------------------------------
(* Collaborators: geometry, FixationSequence, TextBlock *)

\* The integer square root, by bisection; exact on the squares, and every
\* squared distance of the lattice is a square
RECURSIVE SqrtSearch(_, _, _)
SqrtSearch(n, lo, hi) ==
  IF lo = hi THEN lo
  ELSE LET mid == (lo + hi + 1) \div 2
       IN  IF mid * mid <= n
           THEN SqrtSearch(n, mid, hi)
           ELSE SqrtSearch(n, lo, mid - 1)

ISqrt(n) == SqrtSearch(n, 0, n)

\* _core.distance: the Euclidean distance between two points
distance(p, q) ==
  ISqrt((p.x - q.x) * (p.x - q.x) + (p.y - q.y) * (p.y - q.y))

Fixation(fx, fy, d) == [x |-> fx, y |-> fy, duration |-> d, discarded |-> FALSE]

xy(f) == Point(f.x, f.y)

NotDiscarded(f) == ~f.discarded

\* FixationSequence.XYarray: the (x, y) pairs, optionally without the discards
XYarray(fs, include_discards) ==
  LET kept == IF include_discards THEN fs ELSE SelectSeq(fs, NotDiscarded)
  IN  [i \in 1..Len(kept) |-> xy(kept[i])]

\* Iterating a FixationSequence yields every fixation, discarded or not
Iterate(fs) == fs

n_rows(tb) == Len(tb.line_positions)

TextBlocks0 ==
  <<[line_positions |-> <<0>>,
     chars          |-> <<Point(0, 0), Point(90, 0)>>,
     word_centers   |-> <<Point(0, 0)>>],
    [line_positions |-> <<0, 120>>,
     chars          |-> <<Point(0, 0), Point(90, 0), Point(0, 120), Point(90, 120)>>,
     word_centers   |-> <<Point(0, 0), Point(0, 120)>>]>>

TextIds == DOMAIN TextBlocks0

Range(s) == {s[i] : i \in DOMAIN s}

-----------------------------------------------------------------------------
(* snap_to_lines *)

\* The argument checks of snap_to_lines, in the order the code makes them
ValidateTypesOnly(fs_ok, tb_ok, method) ==
  IF ~fs_ok THEN "TypeError"
  ELSE IF ~tb_ok THEN "TypeError"
  ELSE "ok"

Validate(fs_ok, tb_ok, method) ==
  IF ~fs_ok THEN "TypeError"
  ELSE IF ~tb_ok THEN "TypeError"
  ELSE IF method \notin SupportedMethods THEN "ValueError"
  ELSE "ok"

\* fixation_XY[:, 1] = text_block.line_positions[0]
SingleRowWrongColumn(XY, tb) ==
  [i \in DOMAIN XY |-> Point(tb.line_positions[1], XY[i].y)]

SingleRow(XY, tb) ==
  [i \in DOMAIN XY |-> Point(XY[i].x, tb.line_positions[1])]

\* The y-values a strategy of _drift may assign: those of the word centers
\* for warp, the line positions for the other strategies
StrategyTargets(tb, method) ==
  IF method = "warp"
  THEN {tb.word_centers[k].y : k \in DOMAIN tb.word_centers}
  ELSE Range(tb.line_positions)

\* A strategy of _drift: one corrected pair per input pair, in the same
\* order, x kept, y one of the strategy's targets (pick is its choice)
Strategy(XY, pick) ==
  [i \in DOMAIN XY |-> Point(XY[i].x, pick[i])]

\* _FixationSequence([(x, y, f.duration) for f, (x, y) in zip(fixation_sequence, fixation_XY)])
Reassemble(fs, XY) ==
  [i \in 1..Min(Len(Iterate(fs)), Len(XY)) |->
     Fixation(XY[i].x, XY[i].y, Iterate(fs)[i].duration)]

\* The coordinates after lines 39-46
Correct(fs, tb, method, pick) ==
  LET fixation_XY == XYarray(fs, FALSE)
  IN  IF n_rows(tb) = 1
      THEN SingleRow(fixation_XY, tb)
      ELSE Strategy(fixation_XY, pick)

SnapRecord(fs_ok, tb_ok, tb, method) ==
  LET outcome == Validate(fs_ok, tb_ok, method)
  IN  [op         |-> "snap",
       fs_ok      |-> fs_ok,
       tb_ok      |-> tb_ok,
       tb         |-> tb,
       method     |-> method,
       threshold  |-> 0,
       outcome    |-> outcome,
       extracted  |-> outcome = "ok",
       dispatched |-> IF outcome = "ok" /\ n_rows(text_blocks[tb]) # 1
                      THEN method ELSE "none",
       returned   |-> outcome = "ok",
       repeat     |-> FALSE]

SnapOutput(fs_ok, tb_ok, tb, method, pick) ==
  IF Validate(fs_ok, tb_ok, method) = "ok"
  THEN Reassemble(fixation_sequence,
                  Correct(fixation_sequence, text_blocks[tb], method, pick))
  ELSE <<>>

\* A variant in which the coordinate array aliases the input's positions
SnapCallWritingInput(fs_ok, tb_ok, tb, method, pick) ==
  LET out == SnapOutput(fs_ok, tb_ok, tb, method, pick)
  IN  /\ pre' = fixation_sequence
      /\ call' = SnapRecord(fs_ok, tb_ok, tb, method)
      /\ corrected' = out
      /\ fixation_sequence' =
           [i \in DOMAIN fixation_sequence |->
              IF i <= Len(out)
              THEN [fixation_sequence[i] EXCEPT !.y = out[i].y]
              ELSE fixation_sequence[i]]
      /\ UNCHANGED <<text_blocks, sequence1, sequence2, dtw>>

SnapCall(fs_ok, tb_ok, tb, method, pick) ==
  /\ pre' = fixation_sequence
  /\ call' = SnapRecord(fs_ok, tb_ok, tb, method)
  /\ corrected' = SnapOutput(fs_ok, tb_ok, tb, method, pick)
  /\ UNCHANGED <<fixation_sequence, text_blocks, sequence1, sequence2, dtw>>

\* A call whose arguments fail the type checks never reads the method; a
\* strategy makes its choice only when one is dispatched
snap_to_lines ==
  \/ \E fs_ok \in BOOLEAN, tb_ok \in BOOLEAN, tb \in TextIds :
       /\ ~(fs_ok /\ tb_ok)
       /\ SnapCall(fs_ok, tb_ok, tb, "warp", <<>>)
  \/ \E tb \in TextIds, method \in Methods :
       /\ method \notin SupportedMethods \/ n_rows(text_blocks[tb]) = 1
       /\ SnapCall(TRUE, TRUE, tb, method, <<>>)
  \/ \E tb \in TextIds, method \in SupportedMethods :
       /\ n_rows(text_blocks[tb]) # 1
       /\ \E pick \in [1..Len(XYarray(fixation_sequence, FALSE)) ->
                        StrategyTargets(text_blocks[tb], method)] :
            SnapCall(TRUE, TRUE, tb, method, pick)

-----------------------------------------------------------------------------
(* discard_out_of_bounds_fixations *)

TypeCheck(fs_ok, tb_ok) ==
  IF ~fs_ok THEN "TypeError"
  ELSE IF ~tb_ok THEN "TypeError"
  ELSE "ok"

\* The inner loop sets the flag as soon as one character is farther away
\* than the threshold
FarFromSomeChar(f, tb, threshold) ==
  \E k \in DOMAIN tb.chars : distance(xy(f), tb.chars[k]) > threshold

FilteredToggling(fs, tb, threshold) ==
  [i \in DOMAIN fs |->
     IF FarFromSomeChar(fs[i], tb, threshold)
     THEN [fs[i] EXCEPT !.discarded = ~fs[i].discarded]
     ELSE fs[i]]

FilteredAssigning(fs, tb, threshold) ==
  [i \in DOMAIN fs |->
     [fs[i] EXCEPT !.discarded = FarFromSomeChar(fs[i], tb, threshold)]]

Filtered(fs, tb, threshold) ==
  [i \in DOMAIN Iterate(fs) |->
     IF FarFromSomeChar(fs[i], tb, threshold)
     THEN [fs[i] EXCEPT !.discarded = TRUE]
     ELSE fs[i]]

DiscardCall(fs_ok, tb_ok, tb, threshold) ==
  LET outcome == TypeCheck(fs_ok, tb_ok)
  IN  /\ pre' = fixation_sequence
      /\ fixation_sequence' =
           IF outcome = "ok"
           THEN Filtered(fixation_sequence, text_blocks[tb], threshold)
           ELSE fixation_sequence
      /\ call' = [op         |-> "discard",
                  fs_ok      |-> fs_ok,
                  tb_ok      |-> tb_ok,
                  tb         |-> tb,
                  method     |-> "",
                  threshold  |-> threshold,
                  outcome    |-> outcome,
                  extracted  |-> FALSE,
                  dispatched |-> "none",
                  returned   |-> FALSE,
                  repeat     |-> /\ outcome = "ok"
                                 /\ call.op = "discard"
                                 /\ call.outcome = "ok"
                                 /\ call.tb = tb
                                 /\ call.threshold = threshold]
      /\ UNCHANGED <<text_blocks, corrected, sequence1, sequence2, dtw>>

discard_out_of_bounds_fixations ==
  \/ \E fs_ok \in BOOLEAN, tb_ok \in BOOLEAN, tb \in TextIds :
       /\ ~(fs_ok /\ tb_ok)
       /\ DiscardCall(fs_ok, tb_ok, tb, DefaultThreshold)
  \/ \E tb \in TextIds, threshold \in Thresholds :
       DiscardCall(TRUE, TRUE, tb, threshold)

-----------------------------------------------------------------------------
(* The orchestrator and the filter, called in any order on one sequence *)

NoCall ==
  [op |-> "none", fs_ok |-> TRUE, tb_ok |-> TRUE, tb |-> 1, method |-> "",
   threshold |-> 0, outcome |-> "ok", extracted |-> FALSE,
   dispatched |-> "none", returned |-> FALSE, repeat |-> FALSE]

NoDTW == [done |-> FALSE, outcome |-> "ok", cost |-> 0]

\* The fixations a recording may hold: one per lattice point, a duration
\* of its own each
DurationAt(fx, fy) == 100 + fx + fy

Fixations == {Fixation(fx, fy, DurationAt(fx, fy)) : fx \in Xs, fy \in Ys}

Init ==
  /\ fixation_sequence \in SeqsUpTo(Fixations, MaxLen)
  /\ text_blocks = TextBlocks0
  /\ pre = fixation_sequence
  /\ call = NoCall
  /\ corrected = <<>>
  /\ sequence1 = <<>>
  /\ sequence2 = <<>>
  /\ dtw = NoDTW

Next ==
  \/ snap_to_lines
  \/ discard_out_of_bounds_fixations

Spec == Init /\ [][Next]_vars

-----------------------------------------------------------------------------
(* fixation_sequence_distance *)

\* _drift._dynamic_time_warping: the cumulative-cost table, cell (i, j)
\* holding the local distance plus the least of the diagonal, left and up
\* cells; the first row and column accumulate; the cost is the last cell
RECURSIVE DTWCell(_, _, _, _)
DTWCell(A, B, i, j) ==
  LET d == distance(A[i], B[j])
  IN  IF i = 1 /\ j = 1 THEN d
      ELSE IF i = 1 THEN d + DTWCell(A, B, 1, j - 1)
      ELSE IF j = 1 THEN d + DTWCell(A, B, i - 1, 1)
      ELSE d + Min3(DTWCell(A, B, i - 1, j - 1),
                    DTWCell(A, B, i, j - 1),
                    DTWCell(A, B, i - 1, j))

dynamic_time_warping(A, B) == DTWCell(A, B, Len(A), Len(B))

\* XYarray() with its default argument
XYarrayDefault(fs) == XYarray(fs, FALSE)

DistanceOfFirstToItself(s1, s2) ==
  dynamic_time_warping(XYarrayDefault(s1), XYarrayDefault(s1))

SequenceDistance(s1, s2) ==
  dynamic_time_warping(XYarrayDefault(s1), XYarrayDefault(s2))

fixation_sequence_distance ==
  \/ \E ok1 \in BOOLEAN, ok2 \in BOOLEAN :
       /\ ~(ok1 /\ ok2)
       /\ dtw' = [done |-> TRUE, outcome |-> "TypeError", cost |-> 0]
       /\ UNCHANGED <<fixation_sequence, text_blocks, pre, call, corrected,
                      sequence1, sequence2>>
  \/ /\ dtw' = [done |-> TRUE, outcome |-> "ok",
                cost |-> SequenceDistance(sequence1, sequence2)]
     /\ UNCHANGED <<fixation_sequence, text_blocks, pre, call, corrected,
                    sequence1, sequence2>>

DTWInit ==
  /\ sequence1 \in NonEmptySeqsUpTo(Fixations, MaxDTWLen)
  /\ sequence2 \in NonEmptySeqsUpTo(Fixations, MaxDTWLen)
  /\ dtw = NoDTW
  /\ fixation_sequence = <<>>
  /\ text_blocks = TextBlocks0
  /\ pre = <<>>
  /\ call = NoCall
  /\ corrected = <<>>

DTWNext == fixation_sequence_distance

DTWSpec == DTWInit /\ [][DTWNext]_vars

-----------------------------------------------------------------------------
(* Properties *)

SnapReturned == call.op = "snap" /\ call.outcome = "ok"
Filtered_ok == call.op = "discard" /\ call.outcome = "ok"
CallText == text_blocks[call.tb]

\* The positions in fs of the fixations whose coordinates
\* XYarray(include_discards=False) extracts, in order
SourceIndices(fs) ==
  SelectSeq([i \in 1..Len(fs) |-> i], LAMBDA i : ~fs[i].discarded)

\* The least distance from a fixation to a character center of the text
MinDistance(f, tb) ==
  CHOOSE m \in {distance(xy(f), tb.chars[k]) : k \in DOMAIN tb.chars} :
    \A k \in DOMAIN tb.chars : m <= distance(xy(f), tb.chars[k])

\* A sequence without its consecutive repetitions
RECURSIVE Collapse(_)
Collapse(s) ==
  IF Len(s) <= 1 THEN s
  ELSE IF s[1] = s[2] THEN Collapse(Tail(s))
  ELSE <<s[1]>> \o Collapse(Tail(s))

\* C1: the sequence snap_to_lines returns is as long as its input, and its
\* i-th fixation is the corrected i-th input fixation, also when some input
\* fixations are flagged discarded.
C1_SameLengthSameOrder ==
  SnapReturned =>
    /\ Len(corrected) = Len(pre)
    /\ \A i \in DOMAIN corrected : SourceIndices(pre)[i] = i

\* C2: every returned fixation carries the duration of the input fixation
\* whose coordinates were corrected to produce it.
C2_DurationOfSource ==
  SnapReturned =>
    \A i \in DOMAIN corrected :
      corrected[i].duration = pre[SourceIndices(pre)[i]].duration

\* C3: the filter flags a fixation that was not discarded before if and
\* only if its least distance over all character centers exceeds the
\* threshold.
C3_DiscardedIffBeyondEveryChar ==
  Filtered_ok =>
    \A i \in DOMAIN pre :
      ~pre[i].discarded =>
        (fixation_sequence[i].discarded
           <=> MinDistance(pre[i], CallText) > call.threshold)

\* C4: at the default threshold the filter never flags a fixation that lies
\* exactly on the center of some character of the text.
C4_AtCharCenterKept ==
  (Filtered_ok /\ call.threshold = DefaultThreshold) =>
    \A i \in DOMAIN pre :
      (/\ ~pre[i].discarded
       /\ \E k \in DOMAIN CallText.chars : CallText.chars[k] = xy(pre[i]))
        => ~fixation_sequence[i].discarded

\* C5: for a single-row text block every returned fixation has the y of the
\* sole line and the x of the coordinate pair it was made from, whatever the
\* method, and no strategy is dispatched.
C5_SingleRow ==
  (SnapReturned /\ n_rows(CallText) = 1) =>
    /\ call.dispatched = "none"
    /\ Len(corrected) = Len(XYarray(pre, FALSE))
    /\ \A i \in DOMAIN corrected :
         /\ corrected[i].y = CallText.line_positions[1]
         /\ corrected[i].x = XYarray(pre, FALSE)[i].x

C5_Witness ==
  /\ SnapReturned
  /\ n_rows(CallText) = 1
  /\ call.method = "chain"
  /\ \E i \in DOMAIN corrected, j \in DOMAIN corrected :
       /\ XYarray(pre, FALSE)[i].y # CallText.line_positions[1]
       /\ corrected[i].x # corrected[j].x

\* C6: with arguments of the right types and a method name outside the
\* seven supported ones, snap_to_lines ends in a value error before the
\* coordinate array is extracted or a strategy dispatched, and returns
\* nothing, for every text block.
C6_UnknownMethod ==
  (/\ call.op = "snap"
   /\ call.fs_ok
   /\ call.tb_ok
   /\ call.method \notin SupportedMethods) =>
    /\ call.outcome = "ValueError"
    /\ ~call.extracted
    /\ call.dispatched = "none"
    /\ ~call.returned
    /\ corrected = <<>>

C6_Witness ==
  /\ call.op = "snap"
  /\ call.outcome = "ValueError"
  /\ call.method = "bogus"
  /\ n_rows(CallText) = 1
  /\ Len(fixation_sequence) > 0

\* C7: whatever its outcome, a call of snap_to_lines leaves every fixation
\* of its input sequence and the text blocks as they were; corrected values
\* are in the returned sequence only.
C7_InputUntouched ==
  call.op = "snap" =>
    /\ fixation_sequence = pre
    /\ text_blocks = TextBlocks0

C7_Witness ==
  /\ SnapReturned
  /\ \E i \in DOMAIN corrected :
       corrected[i].y # pre[SourceIndices(pre)[i]].y

\* C8 as stated: the DTW distance of two sequences is zero if and only if
\* the two are the same sequence.
C8_ZeroIffIdentical ==
  (dtw.done /\ dtw.outcome = "ok") =>
    (dtw.cost = 0 <=> XYarrayDefault(sequence1) = XYarrayDefault(sequence2))

\* C8 amended: the DTW distance of two sequences is zero if and only if the
\* two are the same once consecutive repetitions of a point are dropped.
C8_ZeroIffSameUpToRepeats ==
  (dtw.done /\ dtw.outcome = "ok") =>
    (dtw.cost = 0 <=> Collapse(XYarrayDefault(sequence1))
                        = Collapse(XYarrayDefault(sequence2)))

C8_Witness ==
  /\ dtw.done
  /\ dtw.outcome = "ok"
  /\ dtw.cost = 0
  /\ sequence1 # sequence2

\* C9: a second run of the filter with the same text block and threshold,
\* right after the first, leaves every flag, position and duration as the
\* first run left them.
C9_Idempotent ==
  (Filtered_ok /\ call.repeat) => fixation_sequence = pre

C9_Witness ==
  /\ Filtered_ok
  /\ call.repeat
  /\ \E i \in DOMAIN fixation_sequence, j \in DOMAIN fixation_sequence :
       fixation_sequence[i].discarded /\ ~fixation_sequence[j].discarded

\* C10: no call of the filter or of snap_to_lines sets a true discarded flag
\* of the sequence back to false.
C10_DiscardMonotonic ==
  /\ Len(fixation_sequence) = Len(pre)
  /\ \A i \in DOMAIN pre :
       pre[i].discarded => fixation_sequence[i].discarded

C10_Witness ==
  /\ Filtered_ok
  /\ \E i \in DOMAIN pre :
       /\ pre[i].discarded
       /\ ~FarFromSomeChar(pre[i], CallText, call.threshold)
       /\ fixation_sequence[i].discarded

====
